---- MODULE Spec2Model ----
(***************************************************************************)
(* Model of the adt-decorators package (src/adt/__init__.py): the class    *)
(* decorator `adt` / `adt_with` that turns the annotations of a class (the *)
(* Family) into dataclass subclasses (the Variant Types), installs the     *)
(* construction guard, the registry `constructors`, the `is_*` predicates  *)
(* and `export_cons`, and the helper `upper_camel_to_snake`.               *)
(*                                                                         *)
(* Python identifiers are sequences of one-character strings, so that the  *)
(* case conversion is computed character by character as the code does.    *)
(* The attributes of the Family type object are one map `attrs`, exactly   *)
(* as setattr/getattr see them: names written by different statements of   *)
(* the decorator share that one namespace.                                 *)
(***************************************************************************)
EXTENDS Integers, Sequences, FiniteSets, TLC

(***************************************************************************)
(* Bounds                                                                  *)
(***************************************************************************)
\* largest number of variants in a class body
MaxVariants == 3
\* largest number of client frames on the call chain of an export
MaxDepth == 2
\* largest number of positional arguments of a construction
MaxArgs == 2
\* deepest chain of client-written subclasses below a Variant Type
MaxSubDepth == 1
\* largest length of the generated identifiers given to the case converter
MaxLen == 4

(***************************************************************************)
(* Characters and identifiers                                              *)
(***************************************************************************)
\* str.lower() on the ASCII uppercase letters
LowerOf ==
  [c \in {"A","B","C","D","E","F","G","H","I","J","K","L","M",
          "N","O","P","Q","R","S","T","U","V","W","X","Y","Z"} |->
     CASE c = "A" -> "a" [] c = "B" -> "b" [] c = "C" -> "c" [] c = "D" -> "d"
       [] c = "E" -> "e" [] c = "F" -> "f" [] c = "G" -> "g" [] c = "H" -> "h"
       [] c = "I" -> "i" [] c = "J" -> "j" [] c = "K" -> "k" [] c = "L" -> "l"
       [] c = "M" -> "m" [] c = "N" -> "n" [] c = "O" -> "o" [] c = "P" -> "p"
       [] c = "Q" -> "q" [] c = "R" -> "r" [] c = "S" -> "s" [] c = "T" -> "t"
       [] c = "U" -> "u" [] c = "V" -> "v" [] c = "W" -> "w" [] c = "X" -> "x"
       [] c = "Y" -> "y" [] c = "Z" -> "z"]

\* c.isupper() for a one-character string
isupper(c) == c \in DOMAIN LowerOf

\* c.lower() for a one-character string
lower(c) == IF isupper(c) THEN LowerOf[c] ELSE c

\* the for loop of upper_camel_to_snake: i is the 1-based position of c
RECURSIVE snake_loop(_, _, _)
snake_loop(s, i, out) ==
  IF i > Len(s) THEN out
  ELSE LET c == s[i] IN
       IF isupper(c)
       THEN snake_loop(s, i + 1,
                       (IF i # 1 THEN out \o <<"_">> ELSE out) \o <<lower(c)>>)
       ELSE snake_loop(s, i + 1, out \o <<c>>)

\* a converter that leaves the first character as it is
upper_camel_to_snake_keepfirst(s) ==
  IF s = <<>> THEN <<>> ELSE snake_loop(s, 2, <<s[1]>>)

upper_camel_to_snake(s) == snake_loop(s, 1, <<>>)

\* is_con_name = "is_" + upper_camel_to_snake(con_name)
is_con_name(con_name) == <<"i", "s", "_">> \o upper_camel_to_snake(con_name)

\* attribute names the decorator writes besides the per-variant ones
N_annotations == <<"_","_","a","n","n","o","t","a","t","i","o","n","s","_","_">>
N_init == <<"_","_","i","n","i","t","_","_">>
N_constructors == <<"c","o","n","s","t","r","u","c","t","o","r","s">>
N_export_cons == <<"e","x","p","o","r","t","_","c","o","n","s">>


(***************************************************************************)
(* Python values                                                           *)
(***************************************************************************)
\* an object bound to an attribute or a global name
Val(kind, ref) == [kind |-> kind, ref |-> ref]

\* a type reference of a field: a class object, or a name given as a string
TypeRef(py, name) == [py |-> py, name |-> name]
NoRef == TypeRef("none", "")
T_str == TypeRef("type", "str")
T_self == TypeRef("str", "Expr")

\* the value of one annotation of the class body, by its Python type
Payload(py, ref, items, pairs) ==
  [py |-> py, ref |-> ref, items |-> items, pairs |-> pairs]

\* the annotation values a class body is written with; its sequences are lists
Payloads ==
  { Payload("type", T_str, <<>>, <<>>),
    Payload("str", T_self, <<>>, <<>>),
    Payload("list", NoRef, <<T_str, T_self>>, <<>>),
    Payload("dict", NoRef, <<>>, << <<"e1", T_self>>, <<"e2", T_str>> >>),
    Payload("int", NoRef, <<>>, <<>>) }

\* the variant names a class body is written with
VariantNames == { <<"A">>, <<"a">>, <<"B">>, <<"C">> }

\* the modules whose code calls into the package, and the package's module
ClientModules == {"main", "lib"}
\* the module of the d-th client frame counted from the outermost: the script
\* is main, the functions it calls live in lib
FrameModule(d) == IF d = 1 THEN "main" ELSE "lib"

Modules == ClientModules \cup {"adt"}

\* mapping helpers: namespaces are functions, dicts are ordered pair lists
Put(map, k, v) == [x \in DOMAIN map \cup {k} |-> IF x = k THEN v ELSE map[x]]
EmptyMap == [x \in {} |-> Val("other", 0)]
Keys(d) == [i \in 1..Len(d) |-> d[i][1]]
HasKey(d, k) == \E i \in 1..Len(d) : d[i][1] = k
DictGet(d, k) == d[CHOOSE i \in 1..Len(d) : d[i][1] = k][2]
DictSet(d, k, v) ==
  IF HasKey(d, k)
  THEN [i \in 1..Len(d) |-> IF d[i][1] = k THEN <<k, v>> ELSE d[i]]
  ELSE Append(d, <<k, v>>)

\* the order in which a class body lists the names it uses
NameOrder == << <<"A">>, <<"a">>, <<"B">>, <<"C">> >>
Position(n) == CHOOSE k \in 1..Len(NameOrder) : NameOrder[k] = n

\* class bodies: ordered annotations with pairwise distinct names
RECURSIVE SeqsUpTo(_, _)
SeqsUpTo(S, n) ==
  IF n = 0 THEN {<<>>}
  ELSE LET shorter == SeqsUpTo(S, n - 1) IN
       shorter \cup { Append(q, x) : q \in {r \in shorter : Len(r) = n - 1}, x \in S }
Schemas ==
  { q \in SeqsUpTo(VariantNames \X Payloads, MaxVariants) :
      \A i, j \in 1..Len(q) : i < j => Position(q[i][1]) < Position(q[j][1]) }

\* the client frames above a call, innermost first, by the module of each
Chains == { [k \in 1..d |-> FrameModule(d + 1 - k)] : d \in 1..MaxDepth }

(***************************************************************************)
(* State                                                                   *)
(***************************************************************************)
VARIABLES
  schema,        \* the annotations the class body was written with
  annotations,   \* contents of the dict at Base.__annotations__
  attrs,         \* attributes of the Family type object Base, by name
  constructors,  \* contents of the dict created for Base.constructors
  exportNames,   \* keys of the `annotations` closed over by Base.export_cons
  classes,       \* the class objects, by id; classes[1] is Base
  globals,       \* f_globals of each module
  last,          \* the last operation and its outcome
  declared,      \* a declaration pass has run to completion
  declaredNames, \* the variant names read by the first completed pass
  convIn,        \* argument of the last call of upper_camel_to_snake
  convOut,       \* its result
  predName       \* the predicate name derived from it

vars == <<schema, annotations, attrs, constructors, exportNames, classes,
          globals, last, declared, declaredNames,
          convIn, convOut, predName>>

convVars == <<convIn, convOut, predName>>

Base == 1

\* a class object: its name, its one base (0: object), and what dataclass()
\* generated for it when it is a dataclass
Class(name, base, params, isdc) ==
  [name |-> name, base |-> base, params |-> params, dataclass |-> isdc,
   init_params |-> IF isdc THEN [i \in 1..Len(params) |-> params[i][1]] ELSE <<>>,
   match_args |-> IF isdc THEN [i \in 1..Len(params) |-> params[i][1]] ELSE <<>>]

NoInst == [cls |-> 0, fields |-> <<>>]

Outcome(op, err, msg) ==
  [op |-> op, err |-> err, msg |-> msg, cls |-> 0, args |-> <<>>,
   fields |-> <<>>, depth |-> 0, chain |-> <<>>, attr |-> <<>>,
   ret |-> FALSE, export |-> FALSE]

InitFamily ==
  /\ schema \in Schemas
  /\ annotations = schema
  /\ attrs = IF schema = <<>> THEN EmptyMap
             ELSE Put(EmptyMap, N_annotations, Val("dict", 0))
  /\ constructors = <<>>
  /\ exportNames = <<>>
  /\ classes = << Class(<<"E","x","p","r">>, 0, <<>>, FALSE) >>
  /\ globals = [m \in Modules |->
                  IF m = "main"
                  THEN [n \in VariantNames |-> Val("other", 0)]
                  ELSE EmptyMap]
  /\ last = Outcome("class", "none", "")
  /\ declared = FALSE
  /\ declaredNames = <<>>

InitConvIdle ==
  /\ convIn = <<>>
  /\ convOut = <<>>
  /\ predName = <<>>

Init == InitFamily /\ InitConvIdle

(***************************************************************************)
(* The declaration pass: adt_with(export_cons, **kwargs)(Base)             *)
(***************************************************************************)
\* a field name with the index of enumerate used unshifted
field_name_unshifted(i) == "_" \o ToString(i)

\* f"_{i+1}" for the 0-based index i of enumerate
field_name(i) == "_" \o ToString(i + 1)

\* the if/elif chain on type(con_ty): the params of one variant, or no params
\* when the chain ends in the raise
params_of(con_ty) ==
  IF con_ty.py = "dict"
  THEN [ok |-> TRUE, params |-> con_ty.pairs]
  ELSE IF con_ty.py = "tuple" \/ con_ty.py = "list"
  THEN [ok |-> TRUE,
        params |-> [k \in 1..Len(con_ty.items) |->
                      <<field_name(k - 1), con_ty.items[k]>>]]
  ELSE IF con_ty.py = "type"
  THEN [ok |-> TRUE, params |-> << <<field_name(0), con_ty.ref>> >>]
  ELSE [ok |-> FALSE, params |-> <<>>]

\* dataclass(type(con_name, (Base, ), {"__annotations__": params}), **kwargs):
\* Base is no dataclass, so the fields are the class's own annotations in order
dataclass(con_name, params) == Class(con_name, Base, params, TRUE)

\* the state the pass works on
PassState(a, r, c) ==
  [attrs |-> a, constructors |-> r, classes |-> c,
   err |-> "none", msg |-> "", at |-> <<>>]

\* one iteration of the for loop over annotations.items()
loop_body(st, con_name, con_ty) ==
  LET n == params_of(con_ty) IN
  IF ~n.ok
  THEN [st EXCEPT !.err = "TypeError",
                  !.msg = "ADT with invalid constructor definition",
                  !.at = con_name]
  ELSE LET id == Len(st.classes) + 1
           cs == Append(st.classes, dataclass(con_name, n.params))
           a1 == Put(st.attrs, con_name, Val("class", id))
       IN IF a1[N_constructors].kind # "dict"
          THEN [st EXCEPT !.classes = cs, !.attrs = a1,
                          !.err = "TypeError",
                          !.msg = "object does not support item assignment",
                          !.at = con_name]
          ELSE [st EXCEPT !.classes = cs,
                          !.attrs = Put(a1, is_con_name(con_name), Val("is_con", id)),
                          !.constructors = DictSet(st.constructors, con_name, id)]

\* the for loop, stopped by the first raise
RECURSIVE for_loop(_, _, _)
for_loop(st, anns, i) ==
  IF i > Len(anns) \/ st.err # "none" THEN st
  ELSE for_loop(loop_body(st, anns[i][1], anns[i][2]), anns, i + 1)

\* the assignments before the loop with Base.__init__ left out
guarded_without_init(a) ==
  Put(Put(a, N_annotations, Val("dict", 0)), N_constructors, Val("dict", 0))

\* the three assignments before the loop
guarded(a) ==
  Put(Put(Put(a, N_annotations, Val("dict", 0)),
          N_init, Val("Base_init", 0)),
      N_constructors, Val("dict", 0))

\* the for loop over the names, inside the while loop, for one frame
RECURSIVE bind_names(_, _, _, _)
bind_names(ns, names, k, a) ==
  IF k > Len(names) THEN ns
  ELSE bind_names(Put(ns, names[k], a[names[k]]), names, k + 1, a)

\* a walk that stops after the caller's frame
walk_frames_caller_only(g, frames, k, names, a) ==
  IF frames = <<>> THEN g
  ELSE [g EXCEPT ![frames[1]] = bind_names(g[frames[1]], names, 1, a)]

\* the while loop over frame, frame.f_back, ...: frames[k] is the module of
\* the k-th frame above export_cons_fn
RECURSIVE walk_frames(_, _, _, _, _)
walk_frames(g, frames, k, names, a) ==
  IF k > Len(frames) THEN g
  ELSE walk_frames([g EXCEPT ![frames[k]] = bind_names(g[frames[k]], names, 1, a)],
                   frames, k + 1, names, a)

\* export_cons_fn(): frame_ok is whether inspect.currentframe() gave a frame
export_cons_fn(g, frames, names, a, frame_ok) ==
  IF ~frame_ok
  THEN [globals |-> g, err |-> "RuntimeError", msg |-> "Cannot inspect stack frames"]
  ELSE IF \E k \in 1..Len(names) : names[k] \notin DOMAIN a
  THEN [globals |-> g, err |-> "AttributeError", msg |-> "getattr(Base, con_name)"]
  ELSE [globals |-> walk_frames(g, frames, 1, names, a), err |-> "none", msg |-> ""]

\* decorator(Base), called from the client frames `chain`
Decorate(export_cons, chain, frame_ok) ==
  /\ IF N_annotations \notin DOMAIN attrs
     THEN /\ last' = Outcome("decorate", "KeyError", "__annotations__")
          /\ UNCHANGED <<schema, annotations, attrs, constructors, exportNames,
                         classes, globals, declared, declaredNames>>
     ELSE LET st == for_loop(PassState(guarded(attrs), <<>>, classes),
                             annotations, 1)
              names == Keys(annotations)
              a2 == Put(st.attrs, N_export_cons, Val("export_cons_fn", 0))
              ex == IF export_cons
                    THEN export_cons_fn(globals, <<"adt">> \o chain, names, a2, frame_ok)
                    ELSE [globals |-> globals, err |-> "none", msg |-> ""]
          IN /\ annotations' = <<>>
             /\ constructors' = st.constructors
             /\ classes' = st.classes
             /\ UNCHANGED schema
             /\ IF st.err # "none"
                THEN /\ attrs' = st.attrs
                     /\ last' = [Outcome("decorate", st.err, st.msg)
                                   EXCEPT !.attr = st.at, !.export = export_cons]
                     /\ UNCHANGED <<exportNames, globals, declared, declaredNames>>
                ELSE /\ attrs' = a2
                     /\ exportNames' = names
                     /\ globals' = ex.globals
                     /\ last' = [Outcome("decorate", ex.err, ex.msg)
                                   EXCEPT !.export = export_cons,
                                          !.chain = IF export_cons
                                                    THEN <<"adt">> \o chain
                                                    ELSE <<>>]
                     /\ declared' = (declared \/ ex.err = "none")
                     /\ declaredNames' = IF ~declared /\ ex.err = "none"
                                         THEN names ELSE declaredNames
  /\ UNCHANGED convVars

\* @adt / adt_with(export_cons=False)
DecoratePlain == Decorate(FALSE, <<>>, TRUE)

\* @adt(export=True) / adt_with(export_cons=True), from some call chain
DecorateExport ==
  \E chain \in Chains, frame_ok \in BOOLEAN : Decorate(TRUE, chain, frame_ok)

(***************************************************************************)
(* Client operations on the Family                                         *)
(***************************************************************************)
\* issubclass(c, d) along the single-base chains
RECURSIVE issubclass(_, _, _)
issubclass(cs, c, d) ==
  IF c = d THEN TRUE
  ELSE IF c = 0 THEN FALSE
  ELSE issubclass(cs, cs[c].base, d)

\* a predicate testing membership in the Family instead of in Con
is_con_family(cs, self, Con) == issubclass(cs, self.cls, Base)

\* the body of is_con closed over Con: isinstance(self, Con)
is_con(cs, self, Con) == issubclass(cs, self.cls, Con)

\* the class whose __init__ a call of class c runs: the nearest dataclass on
\* the base chain, else Base (whose __init__ is an attribute of Base, when
\* set), else 0 for object
RECURSIVE init_owner(_, _, _)
init_owner(cs, a, c) ==
  IF c = 0 THEN 0
  ELSE IF cs[c].dataclass THEN c
  ELSE IF c = Base /\ N_init \in DOMAIN a THEN Base
  ELSE init_owner(cs, a, cs[c].base)

\* c(*args): the outcome of calling class c with positional arguments
construct(cs, a, c, args) ==
  LET o == init_owner(cs, a, c) IN
  IF o = Base
  THEN IF a[N_init].kind = "Base_init"
       THEN [err |-> "TypeError", msg |-> "Tryed to construct an ADT", inst |-> NoInst]
       ELSE [err |-> "TypeError", msg |-> "__init__ is not a function", inst |-> NoInst]
  ELSE IF o = 0
  THEN IF args = <<>>
       THEN [err |-> "none", msg |-> "", inst |-> [cls |-> c, fields |-> <<>>]]
       ELSE [err |-> "TypeError", msg |-> "takes no arguments", inst |-> NoInst]
  ELSE IF Len(args) # Len(cs[o].init_params)
  THEN [err |-> "TypeError", msg |-> "__init__() arguments", inst |-> NoInst]
  ELSE [err |-> "none", msg |-> "",
        inst |-> [cls |-> c,
                  fields |-> [i \in 1..Len(args) |-> <<cs[o].init_params[i], args[i]>>]]]

\* the positional arguments of a call: the i-th argument is the value i
Args(n) == [i \in 1..n |-> i]

\* the class objects after a client wrote `class Sub(c): pass` depth times,
\* each Sub deriving from the one before
RECURSIVE with_subclasses(_, _, _)
with_subclasses(cs, c, depth) ==
  IF depth = 0 THEN cs
  ELSE with_subclasses(Append(cs, Class(<<"S","u","b">>, c, <<>>, FALSE)),
                       Len(cs) + 1, depth - 1)

\* Family(...) or Family.Variant(...) with n positional arguments
Construct(c, n) ==
  /\ c \in 1..Len(classes)
  /\ LET r == construct(classes, attrs, c, Args(n)) IN
     last' = [Outcome("construct", r.err, r.msg)
                EXCEPT !.cls = c, !.args = Args(n), !.fields = r.inst.fields]
  /\ UNCHANGED <<schema, annotations, attrs, constructors, exportNames, classes,
                 globals, declared, declaredNames>>
  /\ UNCHANGED convVars

\* Family.Variant(...).is_x(), as in the example's Var("x").is_var(); with
\* depth > 0 the receiver is an instance of a client-written subclass of the
\* variant, depth levels below it
CallPredicate(c, depth, p) ==
  /\ c \in 2..Len(classes)
  /\ p \in DOMAIN attrs
  /\ attrs[p].kind = "is_con"
  /\ LET cs == with_subclasses(classes, c, depth)
         t == IF depth = 0 THEN c ELSE Len(cs)
         r == construct(cs, attrs, t, Args(Len(classes[c].init_params)))
     IN /\ r.err = "none"
        /\ last' = [Outcome("call", "none", "")
                      EXCEPT !.attr = p, !.cls = c, !.depth = depth,
                             !.fields = r.inst.fields,
                             !.ret = is_con(cs, r.inst, attrs[p].ref)]
  /\ UNCHANGED <<schema, annotations, attrs, constructors, exportNames, classes,
                 globals, declared, declaredNames>>
  /\ UNCHANGED convVars

\* Family.export_cons(), called from the client frames `chain`
ExportCons(chain, frame_ok) ==
  /\ N_export_cons \in DOMAIN attrs
  /\ attrs[N_export_cons].kind = "export_cons_fn"
  /\ LET ex == export_cons_fn(globals, chain, exportNames, attrs, frame_ok) IN
     /\ globals' = ex.globals
     /\ last' = [Outcome("export_cons", ex.err, ex.msg)
                   EXCEPT !.chain = chain, !.export = TRUE]
  /\ UNCHANGED <<schema, annotations, attrs, constructors, exportNames, classes,
                 declared, declaredNames>>
  /\ UNCHANGED convVars

ConstructAny == \E c \in 1..(1 + MaxVariants), n \in 0..MaxArgs : Construct(c, n)
CallPredicateAny ==
  \E c \in 2..(1 + MaxVariants), depth \in 0..MaxSubDepth, p \in DOMAIN attrs :
    CallPredicate(c, depth, p)
ExportConsAny == \E chain \in Chains, frame_ok \in BOOLEAN : ExportCons(chain, frame_ok)

\* declaration, construction and export
Next ==
  \/ DecoratePlain
  \/ DecorateExport
  \/ ConstructAny
  \/ ExportConsAny

Spec == Init /\ [][Next]_vars

\* declaration, construction and the generated predicates
NextPred ==
  \/ DecoratePlain
  \/ ConstructAny
  \/ CallPredicateAny

SpecPred == Init /\ [][NextPred]_vars

(***************************************************************************)
(* The case converter on its own                                           *)
(***************************************************************************)
\* the letters the generated identifiers are made of
ConvAlphabet == {"A", "b", "X", "z"}

\* the identifiers of the package's documentation
Id_AbsExpr == <<"A","b","s","E","x","p","r">>
Id_Var == <<"V","a","r">>
Id_X == <<"X">>

ConvInputs ==
  (SeqsUpTo(ConvAlphabet, MaxLen) \ {<<>>}) \cup {Id_AbsExpr, Id_Var, Id_X}

InitConv ==
  /\ schema = <<>>
  /\ annotations = <<>>
  /\ attrs = EmptyMap
  /\ constructors = <<>>
  /\ exportNames = <<>>
  /\ classes = << Class(<<"E","x","p","r">>, 0, <<>>, FALSE) >>
  /\ globals = [m \in Modules |-> EmptyMap]
  /\ last = Outcome("class", "none", "")
  /\ declared = FALSE
  /\ declaredNames = <<>>
  /\ convIn \in ConvInputs
  /\ convOut = <<>>
  /\ predName = <<>>

\* upper_camel_to_snake(convIn), and the predicate name the decorator derives
Convert ==
  /\ last.op = "class"
  /\ convOut' = upper_camel_to_snake(convIn)
  /\ predName' = is_con_name(convIn)
  /\ last' = Outcome("convert", "none", "")
  /\ UNCHANGED <<schema, annotations, attrs, constructors, exportNames, classes,
                 globals, declared, declaredNames, convIn>>

NextConv == Convert

SpecConv == InitConv /\ [][NextConv]_vars

(***************************************************************************)
(* Properties                                                              *)
(***************************************************************************)
GuardMessage == "Tryed to construct an ADT"
SchemaMessage == "ADT with invalid constructor definition"

\* C1: once a declaration pass has completed, constructing the Family itself
\* fails with the TypeError of Base_init whatever the arguments, and a
\* declaration pass never raises that error.
C1_FamilyConstructionFails ==
  /\ (last.op = "construct" /\ last.cls = Base /\ declared)
       => (last.err = "TypeError" /\ last.msg = GuardMessage)
  /\ last.op = "decorate" => last.msg # GuardMessage

\* C1 witness: a declared Family with two variants was called with arguments.
C1_Witness ==
  /\ last.op = "construct" /\ last.cls = Base /\ declared
  /\ Len(last.args) = 2 /\ Len(declaredNames) = 2
  /\ last.err = "TypeError"

\* the shape of an annotation value as the specification names it
ShapeOf(con_ty) ==
  CASE con_ty.py \in {"type", "str"} -> "single"
    [] con_ty.py \in {"list", "tuple"} -> "sequence"
    [] con_ty.py = "dict" -> "mapping"
    [] OTHER -> "other"

\* the class body declares A, B, C, one in each schema shape, every type
\* reference a class
OneVariantPerShape ==
  /\ Keys(schema) = << <<"A">>, <<"B">>, <<"C">> >>
  /\ {ShapeOf(schema[i][2]) : i \in 1..3} = {"single", "sequence", "mapping"}
  /\ \A i \in 1..3 : schema[i][2].py # "str"

\* the number of fields the annotation value of a variant describes
FieldCount(con_ty) ==
  CASE ShapeOf(con_ty) = "single" -> 1
    [] ShapeOf(con_ty) = "sequence" -> Len(con_ty.items)
    [] ShapeOf(con_ty) = "mapping" -> Len(con_ty.pairs)
    [] OTHER -> 0

\* the generated predicates that return true for a direct instance of c
TruePredicates(c) ==
  { p \in DOMAIN attrs :
      attrs[p].kind = "is_con"
      /\ is_con(classes, [cls |-> c, fields |-> <<>>], attrs[p].ref) }

\* C2: in a declared Family with variants A, B, C, one per schema shape,
\* constructing through a variant with as many arguments as it has fields
\* succeeds and never hits the guard, the value is an instance of the Family,
\* and the one predicate true of it is the predicate named after its variant.
C2_ExactlyOnePredicate ==
  (declared /\ OneVariantPerShape) =>
    /\ (last.op = "construct" /\ last.cls # Base) =>
         /\ last.msg # GuardMessage
         /\ Len(last.args) = FieldCount(DictGet(schema, classes[last.cls].name))
              => last.err = "none"
         /\ issubclass(classes, last.cls, Base)
         /\ TruePredicates(last.cls) = { is_con_name(classes[last.cls].name) }
    /\ (last.op = "call" /\ last.depth = 0) =>
         /\ last.ret = (last.attr = is_con_name(classes[last.cls].name))
         /\ Cardinality({ p \in DOMAIN attrs : attrs[p].kind = "is_con" }) = 3

\* C2 witness: a predicate of another variant was called on an instance built
\* through the mapping-shaped variant, and returned false.
C2_Witness ==
  /\ declared /\ OneVariantPerShape
  /\ last.op = "call" /\ last.depth = 0
  /\ DictGet(schema, classes[last.cls].name).py = "dict"
  /\ last.attr # is_con_name(classes[last.cls].name)
  /\ last.ret = FALSE

\* C3: a generated predicate returns true exactly when the receiver's concrete
\* type is the variant's synthesized type, so false for an instance of a
\* subclass of the variant.
C3_PredicateExactType ==
  last.op = "call" =>
    (last.ret <=> (last.depth = 0 /\ attrs[last.attr].ref = last.cls))

\* C4: when the class body has an annotation value of none of the three
\* shapes (its other values well formed), the pass over it raises the schema
\* TypeError naming an offending variant, and the Family type object carries
\* nothing of the failed pass: no variant attribute, no predicate, no registry
\* and no guard.
C4_FailedPassLeavesNothing ==
  (/\ last.op = "decorate" /\ ~declared
   /\ \E i \in 1..Len(schema) : ShapeOf(schema[i][2]) = "other"
   /\ \A i \in 1..Len(schema) : schema[i][2].py # "str") =>
    /\ last.err = "TypeError" /\ last.msg = SchemaMessage
    /\ HasKey(schema, last.attr)
    /\ ShapeOf(DictGet(schema, last.attr)) = "other"
    /\ constructors = <<>>
    /\ \A n \in DOMAIN attrs : n = N_annotations

\* the fields the claim assigns to an annotation value, by its shape
PositionalNames == <<"_1", "_2", "_3", "_4">>
ExpectedFields(con_ty) ==
  CASE ShapeOf(con_ty) = "single" -> << <<"_1", con_ty.ref>> >>
    [] ShapeOf(con_ty) = "sequence" ->
         [i \in 1..Len(con_ty.items) |-> <<PositionalNames[i], con_ty.items[i]>>]
    [] ShapeOf(con_ty) = "mapping" -> con_ty.pairs
    [] OTHER -> <<>>

C6_SelfReferenceAccepted ==
  (last.op = "decorate"
   /\ \A i \in 1..Len(schema) : ShapeOf(schema[i][2]) # "other")
    => last.msg # SchemaMessage

\* C7: once a pass has completed, the registry maps exactly the variant names
\* that pass declared, in order, each to its Variant Type, in every later
\* state.
C7_RegistryStable ==
  declared =>
    /\ attrs[N_constructors].kind = "dict"
    /\ Keys(constructors) = declaredNames
    /\ \A k \in 1..Len(constructors) :
         /\ constructors[k][2] \in 2..Len(classes)
         /\ classes[constructors[k][2]].name = constructors[k][1]

\* C8: after an export that ran without error, automatic or by a call of
\* export_cons, the globals of every frame above the exporter bind every
\* variant name of the registry to its Variant Type.
C8_ExportBinds ==
  (last.export /\ last.err = "none") =>
    \A k \in 1..Len(last.chain), j \in 1..Len(constructors) :
      /\ constructors[j][1] \in DOMAIN globals[last.chain[k]]
      /\ globals[last.chain[k]][constructors[j][1]] = Val("class", constructors[j][2])

\* C8 witness: export_cons was called inside a function of lib called from
\* main, and replaced main's earlier bindings of two variant names.
C8_Witness ==
  /\ last.op = "export_cons" /\ last.err = "none"
  /\ last.chain = <<"lib", "main">>
  /\ Len(constructors) = 2
  /\ \A j \in 1..2 : globals["main"][constructors[j][1]].kind = "class"

\* the claim's rule: "_" before every uppercase character but the first, then
\* the whole string lowercased
Separators(s, i) == Cardinality({ j \in 2..i : isupper(s[j]) })
WithSeparators(s) ==
  [k \in 1..(Len(s) + Separators(s, Len(s))) |->
     IF \E i \in 1..Len(s) : i + Separators(s, i) = k
     THEN s[CHOOSE i \in 1..Len(s) : i + Separators(s, i) = k]
     ELSE "_"]
Lowercased(t) == [k \in 1..Len(t) |-> lower(t[k])]

\* C9: upper_camel_to_snake follows the rule on identifiers of ASCII letters,
\* maps AbsExpr, Var, X to abs_expr, var, x, and the predicate name is "is_"
\* followed by the result.
C9_CaseConversion ==
  last.op = "convert" =>
    /\ convOut = Lowercased(WithSeparators(convIn))
    /\ predName = <<"i", "s", "_">> \o Lowercased(WithSeparators(convIn))
    /\ convIn = Id_AbsExpr => convOut = <<"a","b","s","_","e","x","p","r">>
    /\ convIn = Id_Var => convOut = <<"v","a","r">>
    /\ convIn = Id_X => convOut = <<"x">>

\* C9 witness: AbsExpr was converted.
C9_Witness ==
  /\ last.op = "convert" /\ convIn = Id_AbsExpr
  /\ predName = <<"i","s","_","a","b","s","_","e","x","p","r">>

\* C10: after a pass that completed without error, every variant name is an
\* attribute holding its registered Variant Type, and its predicate name is an
\* attribute holding the predicate generated for that type.
C10_AttachmentsIntact ==
  (last.op = "decorate" /\ last.err = "none") =>
    \A j \in 1..Len(constructors) :
      LET n == constructors[j][1]
          c == constructors[j][2]
      IN /\ n \in DOMAIN attrs /\ attrs[n] = Val("class", c)
         /\ is_con_name(n) \in DOMAIN attrs
         /\ attrs[is_con_name(n)] = Val("is_con", c)

====
